---------------------------- MODULE Spec2Model ----------------------------
(***************************************************************************)
(* EvoScholar: src/src/evo_scholar.py, class SelfImprovingResearchAgent.   *)
(*                                                                         *)
(* A Python str is modelled as a sequence of characters, each character a  *)
(* one-character TLA+ string.  The backtick cannot be written inside a     *)
(* TLA+ string literal, so that one character is the atom BT.              *)
(***************************************************************************)
EXTENDS Integers, Sequences, FiniteSets

VARIABLES
    \* ---- the agent object and one execution of run() ----
    test_mode,        \* self.test_mode
    iterations,       \* self.iterations
    pc,               \* position of control inside run()
    i,                \* loop variable of "for i in range(self.iterations)"
    latest_papers,    \* run(): latest_papers
    paper_text,       \* run(): paper_text, the current Draft
    feedback,         \* run(): feedback
    file,             \* content of generated_paper.txt, NoFile until first written
    events,           \* history: observable events of run(), in order
    requests,         \* history: outbound requests sent to the two providers
    drafts,           \* history: every value paper_text has held, in order
    \* ---- one call of a pure method (evaluate_paper / extract_text) ----
    call,             \* which call is in progress and how far it is
    arg_text,         \* the text argument
    arg_max_words,    \* evaluate_paper's max_words argument
    ret,              \* the value returned
    ret2              \* the value returned by applying the method to ret

vars == <<test_mode, iterations, pc, i, latest_papers, paper_text, feedback,
          file, events, requests, drafts, call, arg_text, arg_max_words, ret, ret2>>

runVars == <<test_mode, iterations, pc, i, latest_papers, paper_text, feedback,
             file, events, requests, drafts>>

callVars == <<call, arg_text, arg_max_words, ret, ret2>>

-----------------------------------------------------------------------------
(* Characters and the str methods the program uses.                        *)

\* the backtick character
BT == "BACKTICK"

\* str.strip() and str.split() with no argument act on whitespace; these are
\* the whitespace characters that occur in the texts of this model
Whitespace == {" ", "\n", "\t"}

\* s.strip(): s without its leading and trailing whitespace
Strip(s) ==
    LET keep == {k \in 1..Len(s) : s[k] \notin Whitespace}
    IN  IF keep = {} THEN <<>>
        ELSE LET lo == CHOOSE k \in keep : \A m \in keep : k <= m
                 hi == CHOOSE k \in keep : \A m \in keep : k >= m
             IN  SubSeq(s, lo, hi)

\* faulty variant of WordCount: counts the separators, not the words
WordCountSeparators(s) == Cardinality({k \in 1..Len(s) : s[k] \in Whitespace})

\* len(s.split()): the number of maximal runs of non-whitespace characters
WordCount(s) ==
    Cardinality({k \in 1..Len(s) :
                    /\ s[k] \notin Whitespace
                    /\ (k = 1 \/ s[k-1] \in Whitespace)})

\* sub occurs in s starting at index k (1-based)
OccursAt(s, sub, k) ==
    /\ k >= 1
    /\ k + Len(sub) - 1 <= Len(s)
    /\ SubSeq(s, k, k + Len(sub) - 1) = sub

\* "sub in s"
Contains(s, sub) == \E k \in 1..(Len(s) + 1) : OccursAt(s, sub, k)

\* sep.join(parts)
RECURSIVE Join(_, _)
Join(parts, sep) ==
    IF parts = <<>> THEN <<>>
    ELSE IF Len(parts) = 1 THEN parts[1]
    ELSE parts[1] \o sep \o Join(Tail(parts), sep)

\* s.replace(old, new) for a one-character old
ReplaceChar(s, old, new) == [k \in 1..Len(s) |-> IF s[k] = old THEN new ELSE s[k]]

Digits == <<"0", "1", "2", "3", "4", "5", "6", "7", "8", "9">>

\* str(n), as an f-string formats an int
RECURSIVE IntToStr(_)
IntToStr(n) ==
    IF n < 0 THEN <<"-">> \o IntToStr(-n)
    ELSE IF n < 10 THEN <<Digits[n + 1]>>
    ELSE IntToStr(n \div 10) \o <<Digits[(n % 10) + 1]>>

-----------------------------------------------------------------------------
(* evaluate_paper                                                          *)

\* "Paper is too long by "
TooLongPrefix ==
    <<"P","a","p","e","r"," ","i","s"," ","t","o","o"," ","l","o","n","g"," ","b","y"," ">>
\* " words. "
TooLongSuffix ==
    <<" ","w","o","r","d","s","."," ">>
\* "Missing sections: "
MissingPrefix ==
    <<"M","i","s","s","i","n","g"," ","s","e","c","t","i","o","n","s",":"," ">>
\* ". "
MissingSuffix ==
    <<"."," ">>
\* ", "
CommaSpace ==
    <<","," ">>
\* "Success! Paper length is "
SuccessPrefix ==
    <<"S","u","c","c","e","s","s","!"," ","P","a","p","e","r"," ","l","e","n","g","t","h"," ",
      "i","s"," ">>
\* " words."
SuccessSuffix ==
    <<" ","w","o","r","d","s",".">>
SecTitle ==
    <<"T","i","t","l","e",":">>
SecAbstract ==
    <<"A","b","s","t","r","a","c","t",":">>
SecIntroduction ==
    <<"I","n","t","r","o","d","u","c","t","i","o","n",":">>
SecProposedMethod ==
    <<"P","r","o","p","o","s","e","d"," ","M","e","t","h","o","d",":">>
SecConclusion ==
    <<"C","o","n","c","l","u","s","i","o","n",":">>

required_sections ==
    <<SecTitle, SecAbstract, SecIntroduction, SecProposedMethod, SecConclusion>>

\* the default of evaluate_paper's max_words parameter
DefaultMaxWords == 500

\* faulty variant of missing_sections: the test is inverted
missing_sections_listing_present(text) ==
    SelectSeq(required_sections, LAMBDA sec : Contains(text, sec))

\* [sec for sec in required_sections if sec not in paper_text]
missing_sections(text) ==
    SelectSeq(required_sections, LAMBDA sec : ~Contains(text, sec))

\* faulty variant of evaluate_feedback: reports word_count, not the overflow
evaluate_feedback_reports_count(text, max_words) ==
    LET word_count == WordCount(text)
        f0 == <<>>
        f1 == IF word_count > max_words
              THEN f0 \o TooLongPrefix \o IntToStr(word_count) \o TooLongSuffix
              ELSE f0
        missing == missing_sections(text)
        f2 == IF missing # <<>>
              THEN f1 \o MissingPrefix \o Join(missing, CommaSpace) \o MissingSuffix
              ELSE f1
    IN  IF f2 = <<>>
        THEN SuccessPrefix \o IntToStr(word_count) \o SuccessSuffix
        ELSE f2

\* the body of evaluate_paper without the final strip()
evaluate_feedback(text, max_words) ==
    LET word_count == WordCount(text)
        f0 == <<>>
        f1 == IF word_count > max_words
              THEN f0 \o TooLongPrefix \o IntToStr(word_count - max_words) \o TooLongSuffix
              ELSE f0
        missing == missing_sections(text)
        f2 == IF missing # <<>>
              THEN f1 \o MissingPrefix \o Join(missing, CommaSpace) \o MissingSuffix
              ELSE f1
    IN  IF f2 = <<>>
        THEN SuccessPrefix \o IntToStr(word_count) \o SuccessSuffix
        ELSE f2

\* faulty variant of evaluate_paper: word_count >= max_words is too long
evaluate_paper_boundary(text, max_words) == Strip(evaluate_feedback(text, max_words - 1))

\* evaluate_paper: return feedback.strip()
evaluate_paper(text, max_words) == Strip(evaluate_feedback(text, max_words))

-----------------------------------------------------------------------------
(* extract_text: re.search(r"```(?:python)?\n(.*?)\n```", text, re.DOTALL) *)

Fence == <<BT, BT, BT>>

\* "python"
PythonTag ==
    <<"p","y","t","h","o","n">>

Newline == <<"\n">>

\* the closing part of the pattern: \n```
ClosingFence == Newline \o Fence

\* The indices at which group 1 can start for a match that starts at index s,
\* in the order the regex engine tries them: the greedy (?:python)? is tried
\* with the tag first, then without it.
GroupStarts(text, s) ==
    IF ~OccursAt(text, Fence, s) THEN <<>>
    ELSE (IF OccursAt(text, PythonTag \o Newline, s + Len(Fence))
          THEN <<s + Len(Fence) + Len(PythonTag) + 1>> ELSE <<>>)
         \o
         (IF OccursAt(text, Newline, s + Len(Fence))
          THEN <<s + Len(Fence) + 1>> ELSE <<>>)

\* indices k >= b at which the closing \n``` occurs
ClosingsFrom(text, b) == {k \in b..Len(text) : OccursAt(text, ClosingFence, k)}

\* (.*?) is lazy: group 1 ends before the FIRST closing at or after its start
LazyClosing(text, b) ==
    CHOOSE k \in ClosingsFrom(text, b) : \A m \in ClosingsFrom(text, b) : k <= m

\* faulty variant of GroupEnd: a greedy group 1, which runs to the LAST closing
GreedyClosing(text, b) ==
    CHOOSE k \in ClosingsFrom(text, b) : \A m \in ClosingsFrom(text, b) : k >= m

\* the index of the closing that ends group 1 when it starts at b
GroupEnd(text, b) == LazyClosing(text, b)

\* the group-1 starts, among GroupStarts, from which the rest of the pattern matches
MatchingStarts(text, s) ==
    SelectSeq(GroupStarts(text, s), LAMBDA b : ClosingsFrom(text, b) # {})

NoMatch == [found |-> FALSE, group |-> <<>>]

\* re.search: the match at the leftmost start index that has one
code_block(text) ==
    LET starts == {s \in 1..Len(text) : MatchingStarts(text, s) # <<>>}
    IN  IF starts = {} THEN NoMatch
        ELSE LET s == CHOOSE k \in starts : \A m \in starts : k <= m
                 b == MatchingStarts(text, s)[1]
             IN  [found |-> TRUE, group |-> SubSeq(text, b, GroupEnd(text, b) - 1)]

extract_text(text) ==
    LET m == code_block(text)
    IN  IF m.found THEN Strip(m.group) ELSE Strip(text)

-----------------------------------------------------------------------------
(* generate_paper, refine_paper, fetch_latest_papers: the provider boundary *)

\* "Title: Dummy Research Paper\nAbstract: This is a dummy abstract for testing purposes.\nIntroduction: An introduction to the dummy paper.\nProposed Method: A dummy method is proposed.\nConclusion: The paper concludes with dummy insights."
DummyPaper ==
    <<"T","i","t","l","e",":"," ","D","u","m","m","y"," ","R","e","s","e","a","r","c","h"," ",
      "P","a","p","e","r","\n","A","b","s","t","r","a","c","t",":"," ","T","h","i","s"," ","i",
      "s"," ","a"," ","d","u","m","m","y"," ","a","b","s","t","r","a","c","t"," ","f","o","r",
      " ","t","e","s","t","i","n","g"," ","p","u","r","p","o","s","e","s",".","\n","I","n","t",
      "r","o","d","u","c","t","i","o","n",":"," ","A","n"," ","i","n","t","r","o","d","u","c",
      "t","i","o","n"," ","t","o"," ","t","h","e"," ","d","u","m","m","y"," ","p","a","p","e",
      "r",".","\n","P","r","o","p","o","s","e","d"," ","M","e","t","h","o","d",":"," ","A"," ",
      "d","u","m","m","y"," ","m","e","t","h","o","d"," ","i","s"," ","p","r","o","p","o","s",
      "e","d",".","\n","C","o","n","c","l","u","s","i","o","n",":"," ","T","h","e"," ","p","a",
      "p","e","r"," ","c","o","n","c","l","u","d","e","s"," ","w","i","t","h"," ","d","u","m",
      "m","y"," ","i","n","s","i","g","h","t","s",".">>

\* "Refine the following research paper based on this feedback:\n"
RefineHead ==
    <<"R","e","f","i","n","e"," ","t","h","e"," ","f","o","l","l","o","w","i","n","g"," ","r",
      "e","s","e","a","r","c","h"," ","p","a","p","e","r"," ","b","a","s","e","d"," ","o","n",
      " ","t","h","i","s"," ","f","e","e","d","b","a","c","k",":","\n">>

\* "\n\nPaper:\n"
RefinePaper ==
    <<"\n","\n","P","a","p","e","r",":","\n">>

\* "\n\nEnsure the paper is concise (under 500 words), introduces a novel interdisciplinary concept by blending ideas from different STEM fields, and includes the sections: Title, Abstract, Introduction, Proposed Method, and Conclusion."
RefineTail ==
    <<"\n","\n","E","n","s","u","r","e"," ","t","h","e"," ","p","a","p","e","r"," ","i","s"," ",
      "c","o","n","c","i","s","e"," ","(","u","n","d","e","r"," ","5","0","0"," ","w","o","r",
      "d","s",")",","," ","i","n","t","r","o","d","u","c","e","s"," ","a"," ","n","o","v","e",
      "l"," ","i","n","t","e","r","d","i","s","c","i","p","l","i","n","a","r","y"," ","c","o",
      "n","c","e","p","t"," ","b","y"," ","b","l","e","n","d","i","n","g"," ","i","d","e","a",
      "s"," ","f","r","o","m"," ","d","i","f","f","e","r","e","n","t"," ","S","T","E","M"," ",
      "f","i","e","l","d","s",","," ","a","n","d"," ","i","n","c","l","u","d","e","s"," ","t",
      "h","e"," ","s","e","c","t","i","o","n","s",":"," ","T","i","t","l","e",","," ","A","b",
      "s","t","r","a","c","t",","," ","I","n","t","r","o","d","u","c","t","i","o","n",","," ",
      "P","r","o","p","o","s","e","d"," ","M","e","t","h","o","d",","," ","a","n","d"," ","C",
      "o","n","c","l","u","s","i","o","n",".">>

\* "Generate a new interdisciplinary research paper inspired by the following arXiv paper summaries:\n"
BaseHead ==
    <<"G","e","n","e","r","a","t","e"," ","a"," ","n","e","w"," ","i","n","t","e","r","d","i",
      "s","c","i","p","l","i","n","a","r","y"," ","r","e","s","e","a","r","c","h"," ","p","a",
      "p","e","r"," ","i","n","s","p","i","r","e","d"," ","b","y"," ","t","h","e"," ","f","o",
      "l","l","o","w","i","n","g"," ","a","r","X","i","v"," ","p","a","p","e","r"," ","s","u",
      "m","m","a","r","i","e","s",":","\n">>

\* "\n\nYour paper should be concise (under 500 words) and include the sections: Title, Abstract, Introduction, Proposed Method, and Conclusion. Propose a novel concept by blending ideas from different STEM fields."
BaseTail ==
    <<"\n","\n","Y","o","u","r"," ","p","a","p","e","r"," ","s","h","o","u","l","d"," ","b","e",
      " ","c","o","n","c","i","s","e"," ","(","u","n","d","e","r"," ","5","0","0"," ","w","o",
      "r","d","s",")"," ","a","n","d"," ","i","n","c","l","u","d","e"," ","t","h","e"," ","s",
      "e","c","t","i","o","n","s",":"," ","T","i","t","l","e",","," ","A","b","s","t","r","a",
      "c","t",","," ","I","n","t","r","o","d","u","c","t","i","o","n",","," ","P","r","o","p",
      "o","s","e","d"," ","M","e","t","h","o","d",","," ","a","n","d"," ","C","o","n","c","l",
      "u","s","i","o","n","."," ","P","r","o","p","o","s","e"," ","a"," ","n","o","v","e","l",
      " ","c","o","n","c","e","p","t"," ","b","y"," ","b","l","e","n","d","i","n","g"," ","i",
      "d","e","a","s"," ","f","r","o","m"," ","d","i","f","f","e","r","e","n","t"," ","S","T",
      "E","M"," ","f","i","e","l","d","s",".">>

\* "Title: "
SummaryTitle ==
    <<"T","i","t","l","e",":"," ">>

\* "\nAbstract: "
SummaryAbstract ==
    <<"\n","A","b","s","t","r","a","c","t",":"," ">>

\* "Iteration "
IterationHead ==
    <<"I","t","e","r","a","t","i","o","n"," ">>

\* " feedback: "
IterationMid ==
    <<" ","f","e","e","d","b","a","c","k",":"," ">>

\* "\nFinal Version of the Paper:"
FinalHeader ==
    <<"\n","F","i","n","a","l"," ","V","e","r","s","i","o","n"," ","o","f"," ","t","h","e"," ",
      "P","a","p","e","r",":">>

\* "interdisciplinary research AI biology physics"
DefaultQuery ==
    <<"i","n","t","e","r","d","i","s","c","i","p","l","i","n","a","r","y"," ","r","e","s","e",
      "a","r","c","h"," ","A","I"," ","b","i","o","l","o","g","y"," ","p","h","y","s","i","c",
      "s">>

\* the default of fetch_latest_papers' max_results parameter
DefaultMaxResults == 5

\* generate_paper does not call the text-generation provider in test mode
GeneratorCallsProvider == ~test_mode

\* faulty variant of generate_paper: test mode answers from the prompt
generate_paper_echo(prompt, reply) ==
    IF test_mode THEN Strip(prompt) ELSE extract_text(reply)

\* What generate_paper(prompt) returns; reply is the content of the provider's
\* first choice and is read only when the provider is called.
generate_paper(prompt, reply) ==
    IF test_mode THEN DummyPaper ELSE extract_text(reply)

\* the prompt refine_paper builds before it delegates to generate_paper
refine_prompt(text, fb) == RefineHead \o fb \o RefinePaper \o text \o RefineTail

\* one dictionary of fetch_latest_papers' result, from one search result
paper_of(result) ==
    [title    |-> result.title,
     abstract |-> ReplaceChar(result.summary, "\n", " "),
     link     |-> result.entry_id]

\* run(): paper_summaries
paper_summaries(papers) ==
    Join([k \in 1..Len(papers) |->
             SummaryTitle \o papers[k].title \o SummaryAbstract \o papers[k].abstract],
         Newline)

\* run(): base_prompt
base_prompt(papers) == BaseHead \o paper_summaries(papers) \o BaseTail

\* the argument of print(f"Iteration {i+1} feedback: {feedback}")
iteration_line(k, fb) == IterationHead \o IntToStr(k + 1) \o IterationMid \o fb

-----------------------------------------------------------------------------
(* The environment: what the two providers may answer.                     *)

\* the most search results one answer of the search provider holds in the model
MaxPapers == 2

\* the largest self.iterations an agent is constructed with in the model
MaxIterations == 3

SearchResults ==
    { [title |-> <<"Q">>, summary |-> <<"a", "\n", "b">>, entry_id |-> <<"u", "1">>],
      [title |-> <<"R">>, summary |-> <<"c">>,            entry_id |-> <<"u", "2">>] }

\* the answers of the search provider: at most max_results results
SearchAnswers(max_results) ==
    UNION { [1..n -> SearchResults] :
              n \in 0..(IF max_results < MaxPapers THEN max_results ELSE MaxPapers) }

\* "Title: A\nAbstract: B\nIntroduction: C\nProposed Method: D\nConclusion: E"
ScenarioFull ==
    <<"T","i","t","l","e",":"," ","A","\n","A","b","s","t","r","a","c","t",":"," ","B","\n","I",
      "n","t","r","o","d","u","c","t","i","o","n",":"," ","C","\n","P","r","o","p","o","s","e",
      "d"," ","M","e","t","h","o","d",":"," ","D","\n","C","o","n","c","l","u","s","i","o","n",
      ":"," ","E">>

\* "Title: A\nAbstract: B"
ScenarioTwo ==
    <<"T","i","t","l","e",":"," ","A","\n","A","b","s","t","r","a","c","t",":"," ","B">>

\* the contents the text-generation provider may reply with: a complete paper
\* in a fenced block, an incomplete paper with surrounding whitespace, nothing
ChatReplies ==
    { Fence \o PythonTag \o Newline \o ScenarioFull \o ClosingFence,
      <<" ">> \o ScenarioTwo \o Newline,
      <<>> }

-----------------------------------------------------------------------------
(* run()                                                                   *)

NoFile == [exists |-> FALSE, content |-> <<>>]

\* open(file_name, "w") then f.write(text): the whole content is replaced
Written(text) == [exists |-> TRUE, content |-> text]

Event(op, text) == [op |-> op, text |-> text]

SearchRequest(query, max_results) ==
    [to |-> "search", query |-> query, max_results |-> max_results,
     sort_by |-> "SubmittedDate"]

ChatRequest(prompt) == [to |-> "chat", prompt |-> prompt]

\* requests after generate_paper(prompt) has reached its provider call, if it has one
AfterGenerate(prompt) ==
    IF GeneratorCallsProvider THEN Append(requests, ChatRequest(prompt)) ELSE requests

\* a newly constructed agent, about to execute run()
RunInit ==
    /\ test_mode \in BOOLEAN
    /\ iterations \in 0..MaxIterations
    /\ pc = "fetch"
    /\ i = 0
    /\ latest_papers = <<>>
    /\ paper_text = <<>>
    /\ feedback = <<>>
    /\ file = NoFile
    /\ events = <<>>
    /\ requests = <<>>
    /\ drafts = <<>>

\* an agent as the unit tests construct it, on which run() is not called
RunIdle ==
    /\ test_mode = TRUE
    /\ iterations = 1
    /\ pc = "idle"
    /\ i = 0
    /\ latest_papers = <<>>
    /\ paper_text = <<>>
    /\ feedback = <<>>
    /\ file = NoFile
    /\ events = <<>>
    /\ requests = <<>>
    /\ drafts = <<>>

\* no separate call of evaluate_paper or extract_text is in progress
CallIdle ==
    /\ call = "idle"
    /\ arg_text = <<>>
    /\ arg_max_words = 0
    /\ ret = <<>>
    /\ ret2 = <<>>

\* an outbound call raises: the exception leaves run()
Abort == pc' = "aborted"

\* latest_papers = self.fetch_latest_papers(): the search provider answers
FetchOk ==
    /\ pc = "fetch"
    /\ \E answer \in SearchAnswers(DefaultMaxResults) :
          latest_papers' = [k \in 1..Len(answer) |-> paper_of(answer[k])]
    /\ requests' = Append(requests, SearchRequest(DefaultQuery, DefaultMaxResults))
    /\ events' = Append(events, Event("fetch", DefaultQuery))
    /\ pc' = "generate"
    /\ UNCHANGED <<test_mode, iterations, i, paper_text, feedback, file, drafts>>
    /\ UNCHANGED callVars

\* ... or the search request fails
FetchFail ==
    /\ pc = "fetch"
    /\ requests' = Append(requests, SearchRequest(DefaultQuery, DefaultMaxResults))
    /\ events' = Append(Append(events, Event("fetch", DefaultQuery)), Event("raise", <<>>))
    /\ Abort
    /\ UNCHANGED <<test_mode, iterations, i, latest_papers, paper_text, feedback, file, drafts>>
    /\ UNCHANGED callVars

\* paper_text = self.generate_paper(base_prompt), test mode: no provider call
GenerateInitialDummy ==
    /\ pc = "generate"
    /\ ~GeneratorCallsProvider
    /\ LET prompt == base_prompt(latest_papers)
       IN  /\ paper_text' = generate_paper(prompt, <<>>)
           /\ events' = Append(events, Event("generate", prompt))
           /\ requests' = AfterGenerate(prompt)
    /\ drafts' = Append(drafts, paper_text')
    /\ pc' = "loop"
    /\ UNCHANGED <<test_mode, iterations, i, latest_papers, feedback, file>>
    /\ UNCHANGED callVars

\* paper_text = self.generate_paper(base_prompt), the provider replies
GenerateInitialOk ==
    /\ pc = "generate"
    /\ GeneratorCallsProvider
    /\ LET prompt == base_prompt(latest_papers)
       IN  /\ \E reply \in ChatReplies : paper_text' = generate_paper(prompt, reply)
           /\ events' = Append(events, Event("generate", prompt))
           /\ requests' = AfterGenerate(prompt)
    /\ drafts' = Append(drafts, paper_text')
    /\ pc' = "loop"
    /\ UNCHANGED <<test_mode, iterations, i, latest_papers, feedback, file>>
    /\ UNCHANGED callVars

\* ... or the chat request fails
GenerateInitialFail ==
    /\ pc = "generate"
    /\ GeneratorCallsProvider
    /\ LET prompt == base_prompt(latest_papers)
       IN  /\ events' = Append(Append(events, Event("generate", prompt)), Event("raise", <<>>))
           /\ requests' = AfterGenerate(prompt)
    /\ Abort
    /\ UNCHANGED <<test_mode, iterations, i, latest_papers, paper_text, feedback, file, drafts>>
    /\ UNCHANGED callVars

\* faulty variant of LoopHasNext: the loop also ends on a successful evaluation
LoopHasNextUntilSuccess == i < iterations /\ ~Contains(feedback, SuccessPrefix)

\* "for i in range(self.iterations)": i counts the iterations completed so far
LoopHasNext == i < iterations

\* faulty variant of SaveCurrent: the Draft is not saved inside the loop
SaveCurrentSkipped ==
    /\ pc = "loop"
    /\ LoopHasNext
    /\ file' = file
    /\ events' = events
    /\ pc' = "evaluate"
    /\ UNCHANGED <<test_mode, iterations, i, latest_papers, paper_text, feedback,
                   requests, drafts>>
    /\ UNCHANGED callVars

\* loop body, first statement: with open(file_name, "w") as f: f.write(paper_text)
SaveCurrent ==
    /\ pc = "loop"
    /\ LoopHasNext
    /\ file' = Written(paper_text)
    /\ events' = Append(events, Event("write", paper_text))
    /\ pc' = "evaluate"
    /\ UNCHANGED <<test_mode, iterations, i, latest_papers, paper_text, feedback,
                   requests, drafts>>
    /\ UNCHANGED callVars

\* feedback = self.evaluate_paper(paper_text); print(f"Iteration {i+1} feedback: ...")
EvaluateAndPrint ==
    /\ pc = "evaluate"
    /\ feedback' = evaluate_paper(paper_text, DefaultMaxWords)
    /\ events' = Append(events, Event("print", iteration_line(i, feedback')))
    /\ pc' = "refine"
    /\ UNCHANGED <<test_mode, iterations, i, latest_papers, paper_text, file,
                   requests, drafts>>
    /\ UNCHANGED callVars

\* paper_text = self.refine_paper(paper_text, feedback), test mode
RefineDummy ==
    /\ pc = "refine"
    /\ ~GeneratorCallsProvider
    /\ LET prompt == refine_prompt(paper_text, feedback)
       IN  /\ paper_text' = generate_paper(prompt, <<>>)
           /\ events' = Append(events, Event("generate", prompt))
           /\ requests' = AfterGenerate(prompt)
    /\ drafts' = Append(drafts, paper_text')
    /\ i' = i + 1
    /\ pc' = "loop"
    /\ UNCHANGED <<test_mode, iterations, latest_papers, feedback, file>>
    /\ UNCHANGED callVars

\* paper_text = self.refine_paper(paper_text, feedback), the provider replies
RefineOk ==
    /\ pc = "refine"
    /\ GeneratorCallsProvider
    /\ LET prompt == refine_prompt(paper_text, feedback)
       IN  /\ \E reply \in ChatReplies : paper_text' = generate_paper(prompt, reply)
           /\ events' = Append(events, Event("generate", prompt))
           /\ requests' = AfterGenerate(prompt)
    /\ drafts' = Append(drafts, paper_text')
    /\ i' = i + 1
    /\ pc' = "loop"
    /\ UNCHANGED <<test_mode, iterations, latest_papers, feedback, file>>
    /\ UNCHANGED callVars

\* faulty variant of RefineFail: the exception is caught and the call retried
RefineFailRetried ==
    /\ pc = "refine"
    /\ GeneratorCallsProvider
    /\ LET prompt == refine_prompt(paper_text, feedback)
       IN  /\ events' = Append(Append(events, Event("generate", prompt)), Event("raise", <<>>))
           /\ requests' = AfterGenerate(prompt)
    /\ pc' = "refine"
    /\ UNCHANGED <<test_mode, iterations, i, latest_papers, paper_text, feedback, file, drafts>>
    /\ UNCHANGED callVars

\* ... or the chat request fails
RefineFail ==
    /\ pc = "refine"
    /\ GeneratorCallsProvider
    /\ LET prompt == refine_prompt(paper_text, feedback)
       IN  /\ events' = Append(Append(events, Event("generate", prompt)), Event("raise", <<>>))
           /\ requests' = AfterGenerate(prompt)
    /\ Abort
    /\ UNCHANGED <<test_mode, iterations, i, latest_papers, paper_text, feedback, file, drafts>>
    /\ UNCHANGED callVars

\* after the loop: print("\nFinal Version of the Paper:"); print(paper_text)
PrintFinal ==
    /\ pc = "loop"
    /\ ~LoopHasNext
    /\ events' = Append(Append(events, Event("print", FinalHeader)),
                        Event("print", paper_text))
    /\ pc' = "save_final"
    /\ UNCHANGED <<test_mode, iterations, i, latest_papers, paper_text, feedback, file,
                   requests, drafts>>
    /\ UNCHANGED callVars

\* with open(file_name, "w") as f: f.write(paper_text); run() returns
SaveFinal ==
    /\ pc = "save_final"
    /\ file' = Written(paper_text)
    /\ events' = Append(events, Event("write", paper_text))
    /\ pc' = "done"
    /\ UNCHANGED <<test_mode, iterations, i, latest_papers, paper_text, feedback,
                   requests, drafts>>
    /\ UNCHANGED callVars

Init == RunInit /\ CallIdle

Next ==
    \/ FetchOk
    \/ FetchFail
    \/ GenerateInitialDummy
    \/ GenerateInitialOk
    \/ GenerateInitialFail
    \/ SaveCurrent
    \/ EvaluateAndPrint
    \/ RefineDummy
    \/ RefineOk
    \/ RefineFail
    \/ PrintFinal
    \/ SaveFinal

Spec == Init /\ [][Next]_vars

-----------------------------------------------------------------------------
(* One call of evaluate_paper on an enumerated argument.                   *)

\* the concatenation of a sequence of strings
RECURSIVE Concat(_)
Concat(parts) == IF parts = <<>> THEN <<>> ELSE parts[1] \o Concat(Tail(parts))

\* the longest run of filler characters put beside the section markers
MaxFill == 2

FillChars == {"w", " ", "\n"}

Fillers == UNION { [1..n -> FillChars] : n \in 0..MaxFill }

MarkerOrders == { <<1, 2, 3, 4, 5>>, <<5, 4, 3, 2, 1>> }

Separators == { <<>>, <<" ">>, <<"\n">> }

\* the markers of `present`, laid out in the order `ord`, separated by `sep`
MarkerLayout(ord, present, sep) ==
    LET sel == SelectSeq(ord, LAMBDA m : m \in present)
    IN  Join([k \in 1..Len(sel) |-> required_sections[sel[k]]], sep)

\* "Title: Test Research Paper\nAbstract: This is an abstract.\nIntroduction: Intro here.\nProposed Method: Method description.\nConclusion: Final thoughts."
TestSuccessText ==
    <<"T","i","t","l","e",":"," ","T","e","s","t"," ","R","e","s","e","a","r","c","h"," ","P",
      "a","p","e","r","\n","A","b","s","t","r","a","c","t",":"," ","T","h","i","s"," ","i","s",
      " ","a","n"," ","a","b","s","t","r","a","c","t",".","\n","I","n","t","r","o","d","u","c",
      "t","i","o","n",":"," ","I","n","t","r","o"," ","h","e","r","e",".","\n","P","r","o","p",
      "o","s","e","d"," ","M","e","t","h","o","d",":"," ","M","e","t","h","o","d"," ","d","e",
      "s","c","r","i","p","t","i","o","n",".","\n","C","o","n","c","l","u","s","i","o","n",":",
      " ","F","i","n","a","l"," ","t","h","o","u","g","h","t","s",".">>

\* "Title: Incomplete Paper\nAbstract: Missing sections."
TestMissingText ==
    <<"T","i","t","l","e",":"," ","I","n","c","o","m","p","l","e","t","e"," ","P","a","p","e",
      "r","\n","A","b","s","t","r","a","c","t",":"," ","M","i","s","s","i","n","g"," ","s","e",
      "c","t","i","o","n","s",".">>

\* "Title: Abstract: Introduction: Proposed\nMethod: Conclusion"
BrokenMarkerText ==
    <<"T","i","t","l","e",":"," ","A","b","s","t","r","a","c","t",":"," ","I","n","t","r","o",
      "d","u","c","t","i","o","n",":"," ","P","r","o","p","o","s","e","d","\n","M","e","t","h",
      "o","d",":"," ","C","o","n","c","l","u","s","i","o","n">>

\* "see subTitle:, myAbstract:x Introduction:Proposed Method:Conclusion:"
ProseMarkerText ==
    <<"s","e","e"," ","s","u","b","T","i","t","l","e",":",","," ","m","y","A","b","s","t","r",
      "a","c","t",":","x"," ","I","n","t","r","o","d","u","c","t","i","o","n",":","P","r","o",
      "p","o","s","e","d"," ","M","e","t","h","o","d",":","C","o","n","c","l","u","s","i","o",
      "n",":">>

\* "Title: A\nAbstract: B\nIntroduction: C\nProposed Method: D\nConclusion E"
NoColonText ==
    <<"T","i","t","l","e",":"," ","A","\n","A","b","s","t","r","a","c","t",":"," ","B","\n","I",
      "n","t","r","o","d","u","c","t","i","o","n",":"," ","C","\n","P","r","o","p","o","s","e",
      "d"," ","M","e","t","h","o","d",":"," ","D","\n","C","o","n","c","l","u","s","i","o","n",
      " ","E">>

EvalScenarios ==
    { ScenarioFull, ScenarioTwo, TestSuccessText, TestMissingText, DummyPaper,
      BrokenMarkerText, ProseMarkerText, NoColonText }

EvalTexts ==
    EvalScenarios \cup
    { IF before THEN filler \o MarkerLayout(ord, present, sep)
                ELSE MarkerLayout(ord, present, sep) \o filler :
        <<filler, ord, present, sep, before>> \in
            Fillers \X MarkerOrders \X (SUBSET (1..5)) \X Separators \X BOOLEAN }

EvalMaxWords == {0, 2, DefaultMaxWords}

EvalInit ==
    /\ RunIdle
    /\ call = "evaluate"
    /\ arg_text \in EvalTexts
    /\ arg_max_words \in EvalMaxWords
    /\ ret = <<>>
    /\ ret2 = <<>>

\* feedback = agent.evaluate_paper(paper_text, max_words)
EvaluateCall ==
    /\ call = "evaluate"
    /\ ret' = evaluate_paper(arg_text, arg_max_words)
    /\ call' = "evaluated"
    /\ UNCHANGED <<arg_text, arg_max_words, ret2>>
    /\ UNCHANGED runVars

EvalNext == EvaluateCall

SpecEval == EvalInit /\ [][EvalNext]_vars

-----------------------------------------------------------------------------
(* extract_text applied to an enumerated argument, then to its own result. *)

\* the most parts an enumerated argument of extract_text is made of
MaxParts == 6

ExtractParts == { Fence, Newline, PythonTag, <<" ">>, <<"a">> }

\* "Some text\nBT BT BT python\nTitle: Test Paper\nAbstract: Test Abstract\nBT BT BT "
TestFencedInput ==
    <<"S","o","m","e"," ","t","e","x","t","\n",BT,BT,BT,"p","y","t","h","o","n","\n","T","i",
      "t","l","e",":"," ","T","e","s","t"," ","P","a","p","e","r","\n","A","b","s","t","r","a",
      "c","t",":"," ","T","e","s","t"," ","A","b","s","t","r","a","c","t","\n",BT,BT,BT>>

\* "Title: Test Paper\nAbstract: Test Abstract"
TestFencedOutput ==
    <<"T","i","t","l","e",":"," ","T","e","s","t"," ","P","a","p","e","r","\n","A","b","s","t",
      "r","a","c","t",":"," ","T","e","s","t"," ","A","b","s","t","r","a","c","t">>

\* "Title: Direct Text Paper\nAbstract: Direct Abstract"
TestDirectText ==
    <<"T","i","t","l","e",":"," ","D","i","r","e","c","t"," ","T","e","x","t"," ","P","a","p",
      "e","r","\n","A","b","s","t","r","a","c","t",":"," ","D","i","r","e","c","t"," ","A","b",
      "s","t","r","a","c","t">>

\* "pre\nBT BT BT python\nBODY\nBT BT BT \npost"
RoundTripText ==
    <<"p","r","e","\n",BT,BT,BT,"p","y","t","h","o","n","\n","B","O","D","Y","\n",BT,BT,BT,"\n",
      "p","o","s","t">>

\* "x\nBT BT BT python\nA\nBT BT BT \ny\nBT BT BT \nB\nBT BT BT "
TwoBlocksText ==
    <<"x","\n",BT,BT,BT,"p","y","t","h","o","n","\n","A","\n",BT,BT,BT,"\n","y","\n",BT,BT,BT,
      "\n","B","\n",BT,BT,BT>>

\* "BT BT BT BT \n q\nBT BT BT BT "
FourTicksText ==
    <<BT,BT,BT,BT,"\n"," ","q","\n",BT,BT,BT,BT>>

ExtractScenarios ==
    { TestFencedInput, TestDirectText, RoundTripText, TwoBlocksText, FourTicksText }

ExtractTexts ==
    ExtractScenarios \cup ChatReplies \cup
    { Concat(parts) : parts \in UNION { [1..n -> ExtractParts] : n \in 0..MaxParts } }

ExtractInit ==
    /\ RunIdle
    /\ call = "extract"
    /\ arg_text \in ExtractTexts
    /\ arg_max_words = 0
    /\ ret = <<>>
    /\ ret2 = <<>>

\* ret = agent.extract_text(arg_text)
ExtractCall ==
    /\ call = "extract"
    /\ ret' = extract_text(arg_text)
    /\ call' = "extracted"
    /\ UNCHANGED <<arg_text, arg_max_words, ret2>>
    /\ UNCHANGED runVars

\* ret2 = agent.extract_text(ret)
ExtractAgain ==
    /\ call = "extracted"
    /\ ret2' = extract_text(ret)
    /\ call' = "extracted_twice"
    /\ UNCHANGED <<arg_text, arg_max_words, ret>>
    /\ UNCHANGED runVars

ExtractNext == ExtractCall \/ ExtractAgain

SpecExtract == ExtractInit /\ [][ExtractNext]_vars

-----------------------------------------------------------------------------
(* Properties.  Vocabulary used to state them.                             *)

\* the number of events of kind op so far
CountOps(op) == Cardinality({k \in 1..Len(events) : events[k].op = op})

\* the events of kind op, in order
EventsOf(op) == SelectSeq(events, LAMBDA e : e.op = op)

StartsWith(s, prefix) == OccursAt(s, prefix, 1)

EndsWith(s, suffix) == OccursAt(s, suffix, Len(s) - Len(suffix) + 1)

\* the whitespace-delimited tokens of s, scanning left to right
RECURSIVE SplitWords(_)
SplitWords(s) ==
    IF s = <<>> THEN <<>>
    ELSE IF Head(s) \in Whitespace THEN SplitWords(Tail(s))
    ELSE LET n == CHOOSE m \in 1..Len(s) :
                    /\ \A k \in 1..m : s[k] \notin Whitespace
                    /\ (m = Len(s) \/ s[m + 1] \in Whitespace)
         IN  <<SubSeq(s, 1, n)>> \o SplitWords(SubSeq(s, n + 1, Len(s)))

TokenCount(s) == Len(SplitWords(s))

\* the indices (1..5, canonical order) of the required markers absent from t
AbsentMarkers(t) == {k \in 1..5 : ~Contains(t, required_sections[k])}

\* the elements of a set of integers in increasing order
RECURSIVE Ascending(_)
Ascending(S) ==
    IF S = {} THEN <<>>
    ELSE LET lo == CHOOSE k \in S : \A m \in S : k <= m
         IN  <<lo>> \o Ascending(S \ {lo})

\* "Missing sections: <absent markers, canonical order, comma-joined>."
MissingClause(t) ==
    LET abs == Ascending(AbsentMarkers(t))
    IN  MissingPrefix
        \o Join([k \in 1..Len(abs) |-> required_sections[abs[k]]], CommaSpace)
        \o <<".">>

\* "Paper is too long by K words."
TooLongClause(K) == TooLongPrefix \o IntToStr(K) \o <<" ", "w", "o", "r", "d", "s", ".">>

\* "Success! Paper length is 10 words."
Success10 ==
    <<"S","u","c","c","e","s","s","!"," ","P","a","p","e","r"," ","l","e","n","g","t","h"," ",
      "i","s"," ","1","0"," ","w","o","r","d","s",".">>

\* "Success! Paper length is 11 words."
Success11 ==
    <<"S","u","c","c","e","s","s","!"," ","P","a","p","e","r"," ","l","e","n","g","t","h"," ",
      "i","s"," ","1","1"," ","w","o","r","d","s",".">>

\* "Success!"
SuccessBang ==
    <<"S","u","c","c","e","s","s","!">>

\* "too long"
TooLongWords ==
    <<"t","o","o"," ","l","o","n","g">>

\* "Missing sections: Introduction:, Proposed Method:, Conclusion:."
MissingThree ==
    <<"M","i","s","s","i","n","g"," ","s","e","c","t","i","o","n","s",":"," ","I","n","t","r",
      "o","d","u","c","t","i","o","n",":",","," ","P","r","o","p","o","s","e","d"," ","M","e",
      "t","h","o","d",":",","," ","C","o","n","c","l","u","s","i","o","n",":",".">>

\* "Iteration 1 feedback: "
IterationOne ==
    <<"I","t","e","r","a","t","i","o","n"," ","1"," ","f","e","e","d","b","a","c","k",":"," ">>

\* the events of iteration k (1-based) of a run whose Drafts are d
IterationEvents(d, k) ==
    LET f == evaluate_paper(d[k], DefaultMaxWords)
    IN  << Event("write", d[k]),
           Event("print", iteration_line(k - 1, f)),
           Event("generate", refine_prompt(d[k], f)) >>

\* the events of a whole successful run with n iterations and Drafts d
ExpectedEvents(d, n) ==
    << Event("fetch", DefaultQuery), Event("generate", base_prompt(latest_papers)) >>
    \o Concat([k \in 1..n |-> IterationEvents(d, k)])
    \o << Event("print", FinalHeader), Event("print", d[n + 1]), Event("write", d[n + 1]) >>

-----------------------------------------------------------------------------
\* C1: a run in which no outbound call fails leaves the loop only after exactly
\* `iterations` iterations, having invoked the Generator iterations + 1 times and
\* printed one feedback line per iteration; a "Success!" feedback does not end
\* the loop early.
C1_FixedIterationCount ==
    pc \in {"save_final", "done"} =>
        /\ i = iterations
        /\ CountOps("generate") = iterations + 1
        /\ CountOps("print") = iterations + 2
        /\ Len(drafts) = iterations + 1

\* a finished run of two iterations whose first feedback was a success
C1_Witness ==
    /\ pc = "done"
    /\ iterations = 2
    /\ \E k \in 1..Len(events) :
          /\ events[k].op = "print"
          /\ StartsWith(events[k].text, IterationOne \o SuccessBang)

\* C2: the events of a finished run are, in this order: fetch, initial generate,
\* then per iteration i: write d(i-1), print "Iteration i feedback: f(i)" with
\* f(i) = evaluate_paper(d(i-1)), generate from refine's prompt of d(i-1) and f(i);
\* finally print the header and d(N), write d(N).  The file is written N+1 times,
\* and it always holds exactly the text of the latest write.
C2_EventOrder ==
    /\ pc = "done" =>
          /\ Len(drafts) = iterations + 1
          /\ events = ExpectedEvents(drafts, iterations)
          /\ CountOps("write") = iterations + 1
          /\ file = Written(drafts[iterations + 1])
          /\ paper_text = drafts[iterations + 1]
    /\ file.exists =>
          LET writes == EventsOf("write")
          IN  file.content = writes[Len(writes)].text
    /\ ~file.exists => CountOps("write") = 0

\* a finished run of two iterations in which every refinement changed the Draft
C2_Witness ==
    /\ pc = "done"
    /\ iterations = 2
    /\ drafts[1] # drafts[2]
    /\ drafts[2] # drafts[3]

\* C3: an agent in test mode sends no request to the search provider or to the
\* text-generation provider.
C3_NoRequestInTestMode == test_mode => requests = <<>>

\* C4: in test mode every Draft the Generator returns, whatever the prompt, is
\* the canned paper; the file never holds anything else, and a finished run
\* leaves the canned paper in it, whatever papers were fetched.
C4_TestModeCanned ==
    test_mode =>
        /\ \A k \in 1..Len(drafts) : drafts[k] = DummyPaper
        /\ pc \in {"loop", "evaluate", "refine", "save_final", "done"} =>
              paper_text = DummyPaper
        /\ file.exists => file.content = DummyPaper
        /\ pc = "done" => file = Written(DummyPaper)

\* a finished test-mode run of one iteration that had fetched a paper
C4_Witness ==
    /\ test_mode
    /\ iterations = 1
    /\ pc = "done"
    /\ latest_papers # <<>>
    /\ Len(drafts) = 2

\* C5, as stated: the five-section scenario text is reported as 10 words long.
C5_ScenarioTenWords ==
    (call = "evaluated" /\ arg_text = ScenarioFull /\ arg_max_words = DefaultMaxWords)
        => ret = Success10

\* C5, amended: the five-section scenario text has 11 whitespace-delimited
\* tokens ("Proposed Method:" is two), and evaluate_paper returns exactly
\* "Success! Paper length is 11 words.".
C5_ScenarioElevenWords ==
    (call = "evaluated" /\ arg_text = ScenarioFull /\ arg_max_words = DefaultMaxWords)
        => (ret = Success11 /\ TokenCount(arg_text) = 11)

C5_Witness ==
    /\ call = "evaluated"
    /\ arg_text = ScenarioFull
    /\ arg_max_words = DefaultMaxWords
    /\ StartsWith(ret, SuccessBang)

\* C6: evaluate_paper returns "Success! Paper length is {word_count} words."
\* exactly when the token count is at most max_words and all five markers occur
\* as substrings; otherwise the result does not contain "Success!".  The result
\* is never empty.
C6_SuccessIff ==
    call = "evaluated" =>
        LET wc == TokenCount(arg_text)
            ok == wc <= arg_max_words /\ AbsentMarkers(arg_text) = {}
        IN  /\ ok => ret = SuccessPrefix \o IntToStr(wc) \o SuccessSuffix
            /\ ~ok => ~Contains(ret, SuccessBang)
            /\ ret # <<>>

\* a success at the boundary word_count = max_words, with the markers glued
\* into prose (no whitespace around them)
C6_Witness ==
    /\ call = "evaluated"
    /\ TokenCount(arg_text) = arg_max_words
    /\ arg_max_words = 2
    /\ StartsWith(ret, SuccessBang)

\* C7: when markers are absent, the result ends with "Missing sections: "
\* followed by exactly the absent markers, comma-joined in canonical order,
\* then "." and nothing after it; the two-marker scenario text yields the
\* three-marker list.
C7_MissingExactly ==
    call = "evaluated" =>
        /\ AbsentMarkers(arg_text) # {} =>
              /\ EndsWith(ret, MissingClause(arg_text))
              /\ ret[Len(ret)] = "."
              /\ TokenCount(arg_text) <= arg_max_words => ret = MissingClause(arg_text)
        /\ AbsentMarkers(arg_text) = {} => ~Contains(ret, MissingPrefix)
        /\ (arg_text = ScenarioTwo /\ arg_max_words = DefaultMaxWords) => ret = MissingThree

\* markers 2 and 4 absent from a text that lists the others in reverse order
C7_Witness ==
    /\ call = "evaluated"
    /\ AbsentMarkers(arg_text) = {2, 4}
    /\ \E a, b \in 1..Len(arg_text) :
          /\ a < b
          /\ OccursAt(arg_text, SecConclusion, a)
          /\ OccursAt(arg_text, SecTitle, b)
    /\ Contains(ret, MissingPrefix)

\* C8: when the token count exceeds max_words the result starts with "Paper is
\* too long by K words." with K = word_count - max_words >= 1, followed, when
\* markers are absent, by a space and the missing-sections clause and by nothing
\* otherwise; when the count is at most max_words no "too long" appears.
C8_TooLongExact ==
    call = "evaluated" =>
        LET wc == TokenCount(arg_text)
            K  == wc - arg_max_words
        IN  /\ wc > arg_max_words =>
                  /\ K >= 1
                  /\ StartsWith(ret, TooLongClause(K))
                  /\ AbsentMarkers(arg_text) # {} =>
                        ret = TooLongClause(K) \o <<" ">> \o MissingClause(arg_text)
                  /\ AbsentMarkers(arg_text) = {} => ret = TooLongClause(K)
            /\ wc <= arg_max_words => ~Contains(ret, TooLongWords)

\* eleven words over a limit of two, with a marker absent as well
C8_Witness ==
    /\ call = "evaluated"
    /\ arg_text = NoColonText
    /\ arg_max_words = 2
    /\ StartsWith(ret, TooLongClause(9))
    /\ Contains(ret, MissingPrefix)

\* a fence opening starts at p and the text after it starts at b: three
\* backticks, optionally the tag python, then a newline
IsOpening(x, p, b) ==
    \/ (b = p + 4  /\ OccursAt(x, Fence \o Newline, p))
    \/ (b = p + 10 /\ OccursAt(x, Fence \o PythonTag \o Newline, p))

\* the openings <<p, b>> of x that are followed, at or after b, by a newline
\* plus three backticks
ClosedOpenings(x) ==
    { pb \in { <<p, p + d>> : p \in 1..Len(x), d \in {4, 10} } :
        /\ IsOpening(x, pb[1], pb[2])
        /\ \E q \in pb[2]..Len(x) : OccursAt(x, ClosingFence, q) }

\* the interior between the first such opening and the first closing after it
FirstInterior(x) ==
    LET pb == CHOOSE o \in ClosedOpenings(x) : \A m \in ClosedOpenings(x) : o[1] <= m[1]
        qs == {q \in pb[2]..Len(x) : OccursAt(x, ClosingFence, q)}
        q  == CHOOSE k \in qs : \A m \in qs : k <= m
    IN  SubSeq(x, pb[2], q - 1)

\* C9: extract_text(x) is the trimmed interior between the first fence opening
\* that is followed by a closing fence and the first closing fence after it, or
\* x trimmed when x has no such fence; and applying extract_text to its own
\* result changes nothing.
C9_ExtractAndIdempotent ==
    /\ call \in {"extracted", "extracted_twice"} =>
          ret = IF ClosedOpenings(arg_text) # {}
                THEN Strip(FirstInterior(arg_text))
                ELSE Strip(arg_text)
    /\ call = "extracted_twice" => ret2 = ret
    /\ (call = "extracted" /\ arg_text = TestFencedInput) => ret = TestFencedOutput

\* an input with two fenced blocks and text around them: the first block's
\* body is returned, and returned again by the second application
C9_Witness ==
    /\ call = "extracted_twice"
    /\ Cardinality(ClosedOpenings(arg_text)) >= 2
    /\ ret # <<>>
    /\ ret # Strip(arg_text)
    /\ ret2 = ret

\* C10: once an outbound call has raised, run() is aborted and nothing is
\* emitted or written afterwards.  If the fetch or the initial generation
\* failed, the file was never written and nothing was printed.  If the
\* refinement of iteration k failed, the file holds the Draft written at the
\* start of iteration k, exactly the feedback lines of iterations 1..k have
\* been printed, and there is no final print and no final write.
C10_AbortLeavesState ==
    /\ \A k \in 1..Len(events) :
          events[k].op = "raise" => (pc = "aborted" /\ k = Len(events))
    /\ pc = "aborted" =>
          LET g == CountOps("generate")
          IN  /\ events[Len(events)].op = "raise"
              /\ g <= 1 =>
                    /\ file = NoFile
                    /\ CountOps("print") = 0
                    /\ CountOps("write") = 0
              /\ g >= 2 =>
                    /\ i = g - 2
                    /\ Len(drafts) = g - 1
                    /\ file = Written(drafts[g - 1])
                    /\ CountOps("write") = g - 1
                    /\ EventsOf("print") =
                          [j \in 1..(g - 1) |->
                              Event("print",
                                    iteration_line(j - 1,
                                        evaluate_paper(drafts[j], DefaultMaxWords)))]

\* the refinement of the second iteration failed after the first one had
\* changed the Draft
C10_Witness ==
    /\ pc = "aborted"
    /\ CountOps("generate") = 3
    /\ drafts[1] # drafts[2]
    /\ file = Written(drafts[2])

=============================================================================
